---- MODULE Spec2Model ----
(***************************************************************************)
(* Model of flathunter/gpt_formatter.py: GPTExposeFormatter.               *)
(*                                                                         *)
(* Python values (configuration values, the expose, the parsed JSON body   *)
(* of the HTTP response) are tagged records; strings are sequences of      *)
(* characters, so that strip()/rstrip() are computed and not assumed.      *)
(* A Python expression that may raise evaluates to [ok, v, exc].           *)
(***************************************************************************)
EXTENDS Integers, Sequences, FiniteSets, TLC

\* ---------------------------------------------------------------- bounds
MaxContentLen == 3      \* longest message content / fallback text
MaxSlashes == 2         \* most trailing slashes on the configured API base

\* ------------------------------------------------------- Python values
PyNone == [k |-> "none"]
PyStr(s) == [k |-> "str", s |-> s]
PyNum(n) == [k |-> "num", n |-> n]
PyList(l) == [k |-> "list", l |-> l]
\* a dict is its sequence of <<key, value>> items (keys are unique)
PyDict(items) == [k |-> "dict", items |-> items]
\* a Python set object: a value json.dumps cannot serialise
PySet == [k |-> "set"]

Ok(v) == [ok |-> TRUE, v |-> v, exc |-> "none"]
Err(e) == [ok |-> FALSE, v |-> PyNone, exc |-> e]

\* bool(v)
Truthy(v) ==
  CASE v.k = "none" -> FALSE
    [] v.k = "str" -> Len(v.s) > 0
    [] v.k = "num" -> v.n # 0
    [] v.k = "list" -> Len(v.l) > 0
    [] v.k = "dict" -> Len(v.items) > 0
    [] OTHER -> TRUE

DictHas(d, key) == \E i \in 1..Len(d.items) : d.items[i][1] = key

DictLookup(d, key) ==
  d.items[CHOOSE i \in 1..Len(d.items) : d.items[i][1] = key][2]

\* v.get(key, default): only a dict has the method
DictGet(v, key, default) ==
  IF v.k # "dict" THEN Err("AttributeError")
  ELSE IF DictHas(v, key) THEN Ok(DictLookup(v, key))
  ELSE Ok(default)

\* v[0]
GetItem0(v) ==
  CASE v.k = "list" -> IF Len(v.l) > 0 THEN Ok(v.l[1]) ELSE Err("IndexError")
    [] v.k = "str" -> IF Len(v.s) > 0 THEN Ok(PyStr(<<v.s[1]>>)) ELSE Err("IndexError")
    [] v.k = "dict" -> Err("KeyError")
    [] OTHER -> Err("TypeError")

RECURSIVE LStripChars(_, _)
LStripChars(s, chars) ==
  IF s = <<>> THEN s
  ELSE IF Head(s) \in chars THEN LStripChars(Tail(s), chars)
  ELSE s

RECURSIVE RStripChars(_, _)
RStripChars(s, chars) ==
  IF s = <<>> THEN s
  ELSE IF s[Len(s)] \in chars THEN RStripChars(SubSeq(s, 1, Len(s) - 1), chars)
  ELSE s

Whitespace == {" "}

\* variant: lstrip() in place of strip()
Strip_LeftOnly(s) == LStripChars(s, Whitespace)

\* str.strip()
Strip(s) == RStripChars(LStripChars(s, Whitespace), Whitespace)

\* message.strip(): only a str has the method here
StrStrip(v) ==
  IF v.k = "str" THEN Ok(PyStr(Strip(v.s))) ELSE Err("AttributeError")

\* json.dumps can serialise v
RECURSIVE Serializable(_)
Serializable(v) ==
  CASE v.k \in {"none", "str", "num"} -> TRUE
    [] v.k = "list" -> \A i \in 1..Len(v.l) : Serializable(v.l[i])
    [] v.k = "dict" -> \A i \in 1..Len(v.items) : Serializable(v.items[i][2])
    [] OTHER -> FALSE

\* json.dumps(expose, ensure_ascii=False)
JsonDumps(v) ==
  IF Serializable(v) THEN Ok([k |-> "json_text", of |-> v]) ELSE Err("TypeError")

\* ------------------------------------------------------ exception classes
\* classes of the requests library that derive from requests.RequestException
RequestExceptionClasses ==
  {"RequestException", "ConnectionError", "Timeout", "ConnectTimeout",
   "ReadTimeout", "ContentDecodingError", "JSONDecodeError"}

\* variant: only the timeout classes are recognised
IsRequestException_TimeoutOnly(e) == e \in {"Timeout", "ConnectTimeout", "ReadTimeout"}

IsRequestException(e) == e \in RequestExceptionClasses

\* -------------------------------------------------------------- inputs
Slashes(n) == [i \in 1..n |-> "/"]

\* values the configuration object may hand to the constructor
EnabledFlags == BOOLEAN
ApiKeys == {PyNone, PyStr(<<>>), PyStr(<<"k">>)}
ApiBases == {PyNone} \cup {PyStr(<<"h">> \o Slashes(n)) : n \in 0..MaxSlashes}
Models == {PyNone, PyStr(<<>>), PyStr(<<"m">>)}

Configs ==
  [enabled : EnabledFlags, api_key : ApiKeys, api_base : ApiBases, model : Models,
   temperature : {PyNum(1)}, system_prompt : {PyStr(<<"S">>)}, timeout : {PyNum(30)}]

Exposes ==
  {PyDict(<< <<"price", PyNum(1000)>>, <<"rooms", PyNum(2)>> >>),
   PyDict(<< <<"seen", PySet>> >>)}

Fallbacks == {<<>>, <<"a">>, <<"f">>}

ContentChars == {" ", "a"}
Texts == UNION {[1..n -> ContentChars] : n \in 0..MaxContentLen}

\* JSON documents a status-200 (or any other) response may carry
Contents ==
  {PyNone, PyNum(0), PyNum(5), PyList(<<>>)} \cup {PyStr(t) : t \in Texts}
Messages ==
  {PyNone, PyStr(<<"a">>), PyDict(<<>>)}
    \cup {PyDict(<< <<"content", c>> >>) : c \in Contents}
Choices ==
  {PyNone, PyStr(<<"a">>), PyDict(<<>>), PyDict(<< <<"index", PyNum(0)>> >>)}
    \cup {PyDict(<< <<"message", m>> >>) : m \in Messages}
ChoiceLists ==
  {PyNone, PyStr(<<>>), PyDict(<<>>), PyList(<<>>)}
    \cup {PyList(<<c>>) : c \in Choices}
    \cup {PyList(<<PyDict(<< <<"message", PyDict(<< <<"content", PyStr(<<"a">>)>> >>)>> >>),
                   PyDict(<<>>)>>)}
JsonBodies ==
  {PyNone, PyNum(5), PyStr(<<"a">>), PyList(<<>>), PyDict(<<>>),
   PyDict(<< <<"error", PyStr(<<"a">>)>> >>)}
    \cup {PyDict(<< <<"choices", cl>> >>) : cl \in ChoiceLists}

\* a response body that is not a JSON document
NotJson == [k |-> "notjson"]

Statuses == {200, 204, 500}

\* classes requests.post raises for connection, timeout, DNS and framing failures
TransportErrors == {"ConnectionError", "ConnectTimeout", "ReadTimeout", "ContentDecodingError"}

\* what response.json() raises on a body that is not JSON: a RequestException
\* subclass in requests >= 2.27, a plain ValueError before
JsonErrors == {"JSONDecodeError", "ValueError"}

\* bodies sent along with a status other than 200
RejectionBodies ==
  {PyDict(<< <<"error", PyStr(<<"a">>)>> >>),
   PyDict(<< <<"choices",
              PyList(<<PyDict(<< <<"message",
                                   PyDict(<< <<"content", PyStr(<<"a">>)>> >>)>> >>)>>)>> >>)}

\* the behaviour of the remote service for one request
Remotes ==
  {[kind |-> "error", exc |-> e] : e \in TransportErrors}
    \cup {[kind |-> "response", status_code |-> 200, body |-> b, json_exc |-> "none"] :
            b \in JsonBodies}
    \cup {[kind |-> "response", status_code |-> st, body |-> b, json_exc |-> "none"] :
            st \in Statuses \ {200}, b \in RejectionBodies}
    \cup {[kind |-> "response", status_code |-> st, body |-> NotJson, json_exc |-> e] :
            st \in Statuses, e \in JsonErrors}

\* ------------------------------------------------------ GPTExposeFormatter
\* variant: the model name is not consulted
ShouldUseGpt_NoModel(c) == c.enabled /\ Truthy(c.api_key)

\* variant: the enabled flag is not consulted
ShouldUseGpt_NoFlag(c) == Truthy(c.api_key) /\ Truthy(c.model)

\* _should_use_gpt
ShouldUseGpt(c) == c.enabled /\ Truthy(c.api_key) /\ Truthy(c.model)

\* the fixed Russian instruction text that precedes the serialised expose
UserPrompt == "instruction_ru"

\* _build_payload
BuildPayload(c, expose) ==
  LET dumped == JsonDumps(expose) IN
  IF ~dumped.ok THEN Err(dumped.exc)
  ELSE Ok([model |-> c.model,
           temperature |-> c.temperature,
           messages |-> << [role |-> "system", content |-> c.system_prompt],
                           [role |-> "user", content |-> <<UserPrompt, dumped.v>>] >>])

\* f"{self._api_base.rstrip('/')}/chat/completions"
BuildUrl(c) ==
  IF c.api_base.k # "str" THEN Err("AttributeError")
  ELSE Ok(RStripChars(c.api_base.s, {"/"}) \o <<"/chat/completions">>)

BuildHeaders(c) ==
  [Authorization |-> <<"Bearer ", c.api_key>>, ContentType |-> "application/json"]

\* requests.post(url, json=payload, headers=headers, timeout=...)
RequestsPost(remote) ==
  IF remote.kind = "error" THEN Err(remote.exc)
  ELSE Ok([status_code |-> remote.status_code, text |-> remote.body,
           json_exc |-> remote.json_exc])

\* variant: only 4xx/5xx statuses are rejected
StatusRejected_ErrorsOnly(status_code) == status_code >= 400

\* response.status_code != 200
StatusRejected(status_code) == status_code # 200

\* response.json()
ResponseJson(response) ==
  IF response.text.k = "notjson" THEN Err(response.json_exc) ELSE Ok(response.text)

\* data.get("choices", [{}])[0].get("message", {}).get("content")
ExtractMessage(data) ==
  LET choices == DictGet(data, "choices", PyList(<<PyDict(<<>>)>>)) IN
  IF ~choices.ok THEN choices
  ELSE LET first == GetItem0(choices.v) IN
  IF ~first.ok THEN first
  ELSE LET msg == DictGet(first.v, "message", PyDict(<<>>)) IN
  IF ~msg.ok THEN msg
  ELSE DictGet(msg.v, "content", PyNone)

WarnStatus(status_code, text) ==
  [level |-> "warning", msg |-> "GPT API returned %s: %s",
   args |-> <<status_code, text>>, exc_info |-> FALSE]
WarnMissing ==
  [level |-> "warning",
   msg |-> "GPT API response missing content, falling back to default message",
   args |-> <<>>, exc_info |-> FALSE]
WarnError ==
  [level |-> "warning",
   msg |-> "Error while calling GPT API, falling back to default message",
   args |-> <<>>, exc_info |-> TRUE]

\* the observable result of one call of format
Return(value, branch, requests, log) ==
  [outcome |-> "return", value |-> value, exc |-> "none", branch |-> branch,
   requests |-> requests, log |-> log]
Raise(e, requests) ==
  [outcome |-> "raise", value |-> <<>>, exc |-> e, branch |-> "propagate",
   requests |-> requests, log |-> <<>>]

\* variant: except Exception
Catches_All(e) == TRUE

\* except requests.RequestException
Catches(e) == IsRequestException(e)

\* an exception raised inside the try block
Handle(e, fallback, requests) ==
  IF Catches(e) THEN Return(fallback, "except", requests, <<WarnError>>)
  ELSE Raise(e, requests)

\* format, after the gate
TryBlock(c, expose, fallback, remote) ==
  LET payload == BuildPayload(c, expose) IN
  IF ~payload.ok THEN Handle(payload.exc, fallback, <<>>)
  ELSE LET url == BuildUrl(c) IN
  IF ~url.ok THEN Handle(url.exc, fallback, <<>>)
  ELSE LET request == [url |-> url.v, json |-> payload.v, headers |-> BuildHeaders(c),
                       timeout |-> c.timeout]
           response == RequestsPost(remote) IN
  IF ~response.ok THEN Handle(response.exc, fallback, <<request>>)
  ELSE IF StatusRejected(response.v.status_code)
       THEN Return(fallback, "status", <<request>>,
                   <<WarnStatus(response.v.status_code, response.v.text)>>)
  ELSE LET data == ResponseJson(response.v) IN
  IF ~data.ok THEN Handle(data.exc, fallback, <<request>>)
  ELSE LET message == ExtractMessage(data.v) IN
  IF ~message.ok THEN Handle(message.exc, fallback, <<request>>)
  ELSE IF ~Truthy(message.v) THEN Return(fallback, "content", <<request>>, <<WarnMissing>>)
  ELSE LET stripped == StrStrip(message.v) IN
  IF ~stripped.ok THEN Handle(stripped.exc, fallback, <<request>>)
  ELSE Return(stripped.v.s, "success", <<request>>, <<>>)

\* format
FormatResult(c, expose, fallback, remote) ==
  IF ~ShouldUseGpt(c) THEN Return(fallback, "gate", <<>>, <<>>)
  ELSE TryBlock(c, expose, fallback, remote)

\* variant: enabled() reports the bare flag
EnabledResult_FlagOnly(c) == c.enabled

\* enabled
EnabledResult(c) == ShouldUseGpt(c)

\* ------------------------------------------------------------ the machine
\* self:    the fields __init__ stores on the formatter
\* last:    the most recent call on the formatter and what it produced
\* answers: every value enabled() has returned so far
\* prior:   how the most recent call of format ended ("none" before the first)
VARIABLES self, last, answers, prior

vars == <<self, last, answers, prior>>

NoCall ==
  [op |-> "none", expose |-> PyNone, fallback |-> <<>>, remote |-> PyNone,
   outcome |-> "none", value |-> <<>>, ret |-> FALSE, exc |-> "none",
   branch |-> "none", requests |-> <<>>, log |-> <<>>]

\* __init__
Init ==
  /\ self \in Configs
  /\ last = NoCall
  /\ answers = {}
  /\ prior = "none"

Format ==
  \E expose \in Exposes, fallback \in Fallbacks, remote \in Remotes :
    LET r == FormatResult(self, expose, fallback, remote) IN
    /\ last' = [op |-> "format", expose |-> expose, fallback |-> fallback,
                remote |-> IF r.requests = <<>> THEN PyNone ELSE remote,
                outcome |-> r.outcome, value |-> r.value, ret |-> FALSE,
                exc |-> r.exc, branch |-> r.branch, requests |-> r.requests,
                log |-> r.log]
    /\ prior' = r.branch
    /\ UNCHANGED <<self, answers>>

Enabled ==
  LET r == EnabledResult(self) IN
  /\ last' = [NoCall EXCEPT !.op = "enabled", !.outcome = "return", !.ret = r]
  /\ answers' = answers \cup {r}
  /\ UNCHANGED <<self, prior>>

Next == Format \/ Enabled

Spec == Init /\ [][Next]_vars

\* ------------------------------------------------- vocabulary of the claims
\* a configuration value counts as empty when it is absent or the empty string
IsEmpty(v) == v = PyNone \/ v = PyStr(<<>>)

\* the usability gate as the specification words it
GateOpen == self.enabled = TRUE /\ ~IsEmpty(self.api_key) /\ ~IsEmpty(self.model)

FormatCalled == last.op = "format"
Requested == FormatCalled /\ last.requests # <<>>
GotResponse == Requested /\ last.remote.kind = "response"
Got200Json == GotResponse /\ last.remote.status_code = 200 /\ last.remote.body # NotJson
ReturnedFallback == last.outcome = "return" /\ last.value = last.fallback

Absent == [k |-> "absent"]
HasKey(v, key) == v.k = "dict" /\ \E i \in 1..Len(v.items) : v.items[i][1] = key
Field(v, key) == IF HasKey(v, key) THEN DictLookup(v, key) ELSE Absent

\* the value at choices[0].message.content of a JSON document, Absent when
\* any level of the path is missing
PathContent(body) ==
  LET choices == Field(body, "choices")
      first == IF choices.k = "list" /\ Len(choices.l) > 0 THEN choices.l[1] ELSE Absent
  IN Field(Field(first, "message"), "content")

\* v is s without its leading and trailing whitespace
IsTrimOf(v, s) ==
  \E i \in 0..Len(s), j \in 0..Len(s) :
    /\ i + j <= Len(s)
    /\ v = SubSeq(s, i + 1, Len(s) - j)
    /\ \A n \in 1..i : s[n] = " "
    /\ \A n \in (Len(s) - j + 1)..Len(s) : s[n] = " "
    /\ v # <<>> => v[1] # " " /\ v[Len(v)] # " "

ExposeSerializable(e) == \A i \in 1..Len(e.items) : e.items[i][2] # PySet

\* ------------------------------------------------------------------ claims

\* C1: format never surfaces a remote-service problem: with the gate closed,
\* or after a transport error, a non-200 status or a status-200 response that
\* carries a JSON body, the call returns a string and raises nothing.
C1_NeverRaisesForRemote ==
  (FormatCalled /\ (~GateOpen
                    \/ (Requested /\ (last.remote.kind = "error"
                                      \/ last.remote.status_code # 200
                                      \/ last.remote.body # NotJson))))
    => last.outcome = "return"

\* C2: with the gate closed, format returns exactly the fallback, issues no
\* HTTP request and logs nothing.
C2_GateClosedFallback ==
  (FormatCalled /\ ~GateOpen)
    => ReturnedFallback /\ last.requests = <<>> /\ last.log = <<>>

C2_Witness ==
  /\ FormatCalled /\ self.enabled /\ ~IsEmpty(self.api_key) /\ IsEmpty(self.model)
  /\ last.fallback = <<>> /\ last.value = <<>>

\* the shapes C3 lists: a JSON object whose path choices[0].message.content
\* stops at a missing key or an empty list, or ends in an absent or empty value
C3Case(body) ==
  LET choices == Field(body, "choices")
      first == IF choices.k = "list" /\ Len(choices.l) > 0 THEN choices.l[1] ELSE Absent
      message == Field(first, "message")
      content == Field(message, "content")
  IN /\ body.k = "dict"
     /\ \/ choices = Absent
        \/ choices = PyList(<<>>)
        \/ first.k = "dict" /\ message = Absent
        \/ first.k = "dict" /\ message.k = "dict" /\ content \in {Absent, PyNone, PyStr(<<>>)}

\* C3: on status 200 with the content path missing at some level, or its
\* value empty or absent, format logs a warning and returns the fallback.
C3_MissingContentFallback ==
  (GateOpen /\ Got200Json /\ C3Case(last.remote.body))
    => ReturnedFallback /\ last.log = <<WarnMissing>>

\* C4: when the request raises a network-level error, format logs a warning
\* and returns the fallback; no exception propagates.
C4_TransportErrorFallback ==
  (GateOpen /\ Requested /\ last.remote.kind = "error")
    => /\ ReturnedFallback
       /\ Len(last.log) = 1 /\ last.log[1].level = "warning" /\ last.log[1].exc_info
       /\ last.exc = "none"

C4_Witness ==
  /\ GateOpen /\ Requested /\ last.remote.kind = "error"
  /\ last.remote.exc = "ConnectionError" /\ last.value = <<"f">>

\* C5: on any status other than 200, format logs a warning carrying the status
\* and the body and returns the fallback, without parsing the body and without
\* a second request.
C5_Non200Fallback ==
  (GateOpen /\ GotResponse /\ last.remote.status_code # 200)
    => /\ ReturnedFallback
       /\ Len(last.log) = 1 /\ last.log[1].level = "warning"
       /\ last.log[1].args = <<last.remote.status_code, last.remote.body>>
       /\ last.branch = "status"
       /\ Len(last.requests) = 1

C5_Witness ==
  /\ GateOpen /\ GotResponse /\ last.remote.status_code = 204
  /\ PathContent(last.remote.body) = PyStr(<<"a">>) /\ last.value = <<"f">>

\* C6: on status 200 with a non-empty string at choices[0].message.content,
\* format returns that string without its leading and trailing whitespace
\* through the success branch, and logs no warning.
C6_SuccessTrimmed ==
  (GateOpen /\ Got200Json
     /\ PathContent(last.remote.body).k = "str"
     /\ PathContent(last.remote.body) # PyStr(<<>>))
    => /\ last.outcome = "return"
       /\ IsTrimOf(last.value, PathContent(last.remote.body).s)
       /\ last.branch = "success"
       /\ last.log = <<>>

C6_Witness ==
  /\ GateOpen /\ Got200Json
  /\ PathContent(last.remote.body) = PyStr(<<" ", "a", " ">>)
  /\ last.value = <<"a">> /\ last.fallback = <<"f">>

\* C7 as stated: at most one request per call, none with the gate closed and
\* exactly one with the gate open.
C7_ExactlyOneWhenOpen ==
  FormatCalled
    => /\ Len(last.requests) <= 1
       /\ ~GateOpen => Len(last.requests) = 0
       /\ GateOpen => Len(last.requests) = 1

\* C7 (amended): at most one request per call; none when the gate is closed or
\* when building the payload or the URL raises (an expose that cannot be
\* serialised, an API base that is not a string); exactly one otherwise.
C7_AtMostOneRequest ==
  FormatCalled
    => /\ Len(last.requests) <= 1
       /\ Len(last.requests) = 1
            <=> (GateOpen /\ ExposeSerializable(last.expose) /\ self.api_base.k = "str")

C7_Witness ==
  /\ GateOpen /\ Requested /\ last.remote.kind = "error" /\ Len(last.requests) = 1
  /\ last.remote.exc = "ReadTimeout"

\* C8: enabled() answers exactly the gate, which is exactly when format goes
\* past its first return; it sends nothing, logs nothing, leaves the formatter
\* as it was, and every answer of one instance is the same.
C8_EnabledIsGate ==
  [][ /\ self' = self
      /\ last'.op = "enabled"
           => /\ last'.ret = GateOpen
              /\ last'.requests = <<>> /\ last'.log = <<>>
              /\ prior' = prior
              /\ answers' = {GateOpen}
      /\ last'.op = "format" => ((last'.branch # "gate") <=> GateOpen) ]_vars

C8_Witness ==
  /\ last.op = "enabled" /\ last.ret = TRUE /\ prior = "propagate" /\ answers = {TRUE}

C10_EmptyOnlyFromFallback ==
  (FormatCalled /\ last.outcome = "return" /\ last.value = <<>>)
    => last.fallback = <<>>

====
